---- MODULE Spec2Model ----
(***************************************************************************)
(* The Eclat miner of src/app.py (class EclatAlgorithm): the vertical      *)
(* index, the depth-first search for frequent itemsets, the generation of  *)
(* association rules and the packaging of the results.                     *)
(*                                                                         *)
(* Numbers.  min_support and min_confidence are kept in hundredths (0.05   *)
(* is 5, 0.3 is 30).  A support, a confidence or a lift is the fraction    *)
(* [num, den] that the code's float division computes; two fractions are   *)
(* compared by cross-multiplication.                                       *)
(***************************************************************************)
EXTENDS Integers, Sequences, FiniteSets, TLC

VARIABLES
    min_support,        \* self.min_support, in hundredths
    min_confidence,     \* self.min_confidence, in hundredths
    frequent_itemsets,  \* self.frequent_itemsets: list of entries
    rules,              \* self.rules: list of rules
    tid_lists,          \* self.tid_lists: dict item -> set of tids, in insertion order
    num_transactions,   \* self.num_transactions
    transactions,       \* the argument of the running fit() call
    fit_i,              \* position of fit()'s loop over the sorted frequent items
    stack,              \* the frames of the active _eclat_recursive calls
    gen_i,              \* position of _generate_rules' loop over frequent_itemsets
    results,            \* what get_results() returned
    fits,               \* number of fit() calls made on the instance
    pc,                 \* where the caller of the miner stands
    current_model,      \* frontend-api: model_loader.current_model
    current_version,    \* frontend-api: model_loader.current_version
    model_date,         \* frontend-api: model_loader.model_date
    request,            \* frontend-api: the JSON body of the last request
    response,           \* frontend-api: the last HTTP response sent
    threads,            \* frontend-api: the requests in progress and their local variables
    store,              \* the shared models directory: metadata.json and the pickle files
    trainers,           \* training service: the /train requests in progress and their local variables
    now,                \* training service: the clock read by datetime.now()
    saves,              \* training service: number of save_model calls that have returned
    tresponse,          \* training service: the last HTTP response sent
    ml_request,         \* ml-service: the last RecommendationRequest received
    ml_response,        \* ml-service: the last list of recommendations returned
    gateway             \* backend-api: the last request, what the ML service did with it, the response

vars == <<min_support, min_confidence, frequent_itemsets, rules, tid_lists,
          num_transactions, transactions, fit_i, stack, gen_i, results, fits, pc,
          current_model, current_version, model_date, request, response,
          threads, store, trainers, now, saves, tresponse, ml_request, ml_response,
          gateway>>

\* the state of the miner
miner == <<min_support, min_confidence, frequent_itemsets, rules, tid_lists,
           num_transactions, transactions, fit_i, stack, gen_i, results, fits, pc>>

\* the state of the recommendation service (frontend-api)
frontend == <<current_model, current_version, model_date, request, response, threads>>

\* the state of the training service and of the directory it writes
training == <<store, trainers, now, saves, tresponse>>

\* the state outside the miner
\* the state of the ML service and of the gateway in front of it
mlservice == <<ml_request, ml_response, gateway>>

outside == <<frontend, training, mlservice>>

----------------------------------------------------------------------------
(* Bounds of the inputs *)

\* most transactions in the varied part of an input
MaxN == 2
\* most items listed in one transaction of the varied part
MaxTxLen == 2
\* number of distinct items the varied part draws from
NumCoreItems == 3

\* the item identifiers, listed in lexicographic order
ItemOrder == <<"A", "B", "C", "D", "E", "F">>

AllItems == {ItemOrder[k] : k \in 1..Len(ItemOrder)}

CoreItems == {ItemOrder[k] : k \in 1..NumCoreItems}

SeqsUpTo(S, n) == UNION {[1..k -> S] : k \in 0..n}

\* the transactions of the varied part: item lists, repeated items included
TxPool == SeqsUpTo(CoreItems, MaxTxLen)

\* numbers of single-song playlists appended to the varied part, so that
\* the transaction count crosses 20 and 40 (min_sup_count 1 and 2)
PadSizes == {0, 18, 38}

PadTx == <<ItemOrder[1]>>

Padding(n) == [k \in 1..n |-> PadTx]

\* the varied lists of playlists
CoreLists == SeqsUpTo(TxPool, MaxN)

\* playlists holding the first three to all six items at once: items that
\* co-occur three and more at a time
WideTx == {SubSeq(ItemOrder, 1, w) : w \in 3..Len(ItemOrder)}

\* one such playlist, followed by at most one varied playlist
WideLists == {<<w>> \o c : w \in WideTx, c \in SeqsUpTo(TxPool, 1)}

\* the lists of playlists handed to fit()
Inputs == {c \o Padding(p) : c \in CoreLists \cup WideLists, p \in PadSizes}

----------------------------------------------------------------------------
(* Values *)

Range(s) == {s[k] : k \in 1..Len(s)}

\* the float a / b of two non-negative integers, b > 0
Frac(a, b) == [num |-> a, den |-> b]

FracIsZero(x) == x.num = 0

\* x >= y on fractions with positive denominators
FracGeq(x, y) == x.num * y.den >= y.num * x.den

FracEq(x, y) == x.num * y.den = y.num * x.den

\* the float x / y of two fractions, y not zero
FracDiv(x, y) == [num |-> x.num * y.den, den |-> x.den * y.num]

\* a threshold kept in hundredths, as a fraction
Hundredths(h) == [num |-> h, den |-> 100]

\* Python's order on the item strings
Rank(item) == CHOOSE k \in 1..Len(ItemOrder) : ItemOrder[k] = item

LexLess(a, b) == Rank(a) < Rank(b)

MaxItemsetSize == 5

DefaultMinSupport == 5

DefaultMinConfidence == 30

----------------------------------------------------------------------------
(* _build_tid_lists *)

HasKey(d, item) == \E k \in 1..Len(d) : d[k].item = item

\* DictAdd with the set of an item replaced where it should grow
DictAddOverwrite(d, item, tid) ==
    IF HasKey(d, item)
    THEN [k \in 1..Len(d) |->
            IF d[k].item = item THEN [item |-> item, tids |-> {tid}] ELSE d[k]]
    ELSE Append(d, [item |-> item, tids |-> {tid}])

\* self.tid_lists[item].add(tid) on a defaultdict(set)
DictAdd(d, item, tid) ==
    IF HasKey(d, item)
    THEN [k \in 1..Len(d) |->
            IF d[k].item = item
            THEN [item |-> item, tids |-> d[k].tids \cup {tid}]
            ELSE d[k]]
    ELSE Append(d, [item |-> item, tids |-> {tid}])

RECURSIVE AddTransaction(_, _, _)
\* for item in transaction: ...
AddTransaction(d, tx, tid) ==
    IF tx = <<>> THEN d
    ELSE AddTransaction(DictAdd(d, Head(tx), tid), Tail(tx), tid)

RECURSIVE BuildFrom(_, _, _)
\* for tid, transaction in enumerate(transactions): ...
\* (Len(d) comes first so that the dictionary is evaluated loop by loop)
BuildFrom(d, txs, tid) ==
    IF Len(d) >= 0 /\ tid >= Len(txs) THEN d
    ELSE BuildFrom(AddTransaction(d, txs[tid + 1], tid), txs, tid + 1)

BuildTidLists(txs) == BuildFrom(<<>>, txs, 0)

\* d[item]
TidsOf(d, item) == d[CHOOSE k \in 1..Len(d) : d[k].item = item].tids

----------------------------------------------------------------------------
(* fit: thresholds, frequent items, size-1 itemsets *)

\* MinSupCount with rounding to the nearest integer
MinSupCountRounded(ms, n) == (ms * n + 50) \div 100

\* int(self.min_support * self.num_transactions)
MinSupCount(ms, n) == (ms * n) \div 100

min_sup_count == MinSupCount(min_support, num_transactions)

\* IsFrequent with a strict comparison
IsFrequentStrict(tids, msc) == Cardinality(tids) > msc

\* len(tids) >= min_sup_count
IsFrequent(tids, msc) == Cardinality(tids) >= msc

\* the dict comprehension of fit: the entries of tid_lists that are frequent
FrequentItems(d, msc) == SelectSeq(d, LAMBDA e : IsFrequent(e.tids, msc))

frequent_items == FrequentItems(tid_lists, min_sup_count)

Entry(itemset, tids, n) ==
    [itemset |-> itemset, support |-> Frac(Cardinality(tids), n), tid_list |-> tids]

\* the entries appended by fit's first loop, in the dict's order
SingleEntries(fi, n) ==
    [k \in 1..Len(fi) |-> Entry(<<fi[k].item>>, fi[k].tids, n)]

\* SortedKeys without the sort: the keys in the dict's order
SortedKeysUnsorted(fi) == [k \in 1..Len(fi) |-> fi[k].item]

\* sorted(frequent_items.keys())
SortedKeys(fi) == SortSeq([k \in 1..Len(fi) |-> fi[k].item], LexLess)

items == SortedKeys(frequent_items)

\* After with the slice starting one element early: s[i:]
AfterInclusive(s, i) == SubSeq(s, i, Len(s))

\* s[i+1:] for the element at 1-based position i
After(s, i) == SubSeq(s, i + 1, Len(s))

Frame(prefix, prefix_tids, remaining_items) ==
    [prefix |-> prefix, prefix_tids |-> prefix_tids,
     remaining_items |-> remaining_items, i |-> 1]

\* FitRaises with the division made before the loop instead of inside it
FitRaisesHoisted(fi, n) == n = 0

\* len(tids) / self.num_transactions raises ZeroDivisionError: the division
\* is made in the loop over the frequent items, so only if there is one
FitRaises(fi, n) == Len(fi) > 0 /\ n = 0

\* the body of fit(transactions), up to the start of its loop over the
\* sorted items; frequent_itemsets is appended to, never emptied
FitEffects(t) ==
    LET fi == FrequentItems(BuildTidLists(t), MinSupCount(min_support, Len(t)))
    IN /\ transactions' = t
       /\ num_transactions' = Len(t)
       /\ tid_lists' = BuildTidLists(t)
       /\ frequent_itemsets' = IF FitRaises(fi, Len(t)) THEN frequent_itemsets
                               ELSE frequent_itemsets \o SingleEntries(fi, Len(t))
       /\ fit_i' = 1
       /\ stack' = <<>>
       /\ pc' = IF FitRaises(fi, Len(t)) THEN "raised" ELSE "dfs"
       /\ fits' = fits + 1
       /\ UNCHANGED <<outside, min_support, min_confidence, rules, gen_i, results>>

\* fit(transactions) on a new instance
Fit(t) ==
    /\ pc = "new"
    /\ FitEffects(t)

\* one iteration of fit's loop: the call of _eclat_recursive for items[i]
FitLoop ==
    /\ pc = "dfs"
    /\ stack = <<>>
    /\ fit_i <= Len(items)
    /\ stack' = <<Frame(<<items[fit_i]>>, TidsOf(frequent_items, items[fit_i]),
                        After(items, fit_i))>>
    /\ fit_i' = fit_i + 1
    /\ UNCHANGED <<outside, fits, min_support, min_confidence, frequent_itemsets, rules, tid_lists,
                   num_transactions, transactions, gen_i, results, pc>>

----------------------------------------------------------------------------
(* _eclat_recursive *)

Top == stack[Len(stack)]

\* NewTids that forgets the prefix
NewTidsItemOnly(prefix_tids, item_tids) == item_tids

\* prefix_tids.intersection(frequent_items[item])
NewTids(prefix_tids, item_tids) == prefix_tids \cap item_tids

\* MayRecurse with the limit off by one
MayRecurseInclusive(new_itemset) == Len(new_itemset) <= MaxItemsetSize

\* len(new_itemset) < 5
MayRecurse(new_itemset) == Len(new_itemset) < MaxItemsetSize

\* the frame with its loop moved to the next element
Advance(f) == [f EXCEPT !.i = f.i + 1]

\* one iteration of the loop of the innermost active call
EclatIter ==
    /\ pc = "dfs"
    /\ stack # <<>>
    /\ Top.i <= Len(Top.remaining_items)
    /\ LET f == Top
           item == f.remaining_items[f.i]
           new_tids == NewTids(f.prefix_tids, TidsOf(frequent_items, item))
           new_itemset == Append(f.prefix, item)
           below == SubSeq(stack, 1, Len(stack) - 1)
       IN IF IsFrequent(new_tids, min_sup_count)
          THEN /\ frequent_itemsets' =
                     Append(frequent_itemsets, Entry(new_itemset, new_tids, num_transactions))
               /\ stack' = IF MayRecurse(new_itemset)
                           THEN below \o <<Advance(f),
                                    Frame(new_itemset, new_tids, After(f.remaining_items, f.i))>>
                           ELSE below \o <<Advance(f)>>
          ELSE /\ frequent_itemsets' = frequent_itemsets
               /\ stack' = below \o <<Advance(f)>>
    /\ UNCHANGED <<outside, fits, min_support, min_confidence, rules, tid_lists, num_transactions,
                   transactions, fit_i, gen_i, results, pc>>

\* the loop of the innermost call is exhausted: the call returns
EclatReturn ==
    /\ pc = "dfs"
    /\ stack # <<>>
    /\ Top.i > Len(Top.remaining_items)
    /\ stack' = SubSeq(stack, 1, Len(stack) - 1)
    /\ UNCHANGED <<outside, fits, min_support, min_confidence, frequent_itemsets, rules, tid_lists,
                   num_transactions, transactions, fit_i, gen_i, results, pc>>

----------------------------------------------------------------------------
(* _generate_rules *)

\* key in itemset_support, the dict keyed by frozenset(fs['itemset'])
InTable(fis, key) == \E k \in 1..Len(fis) : Range(fis[k].itemset) = key

\* itemset_support[key]: a later entry of the list overwrites an earlier one
TableGet(fis, key) ==
    LET last == CHOOSE k \in 1..Len(fis) :
                    /\ Range(fis[k].itemset) = key
                    /\ \A m \in (k + 1)..Len(fis) : Range(fis[m].itemset) # key
    IN fis[last].support

\* the 0.0001 of itemset_support.get(consequent_key, 0.0001)
DefaultConsequentSup == Frac(1, 10000)

RECURSIVE combinations(_, _)
\* itertools.combinations(s, r) as a list, in the order it yields
combinations(s, r) ==
    IF r = 0 THEN << <<>> >>
    ELSE IF Len(s) < r THEN <<>>
    ELSE LET with == combinations(Tail(s), r - 1)
         IN [k \in 1..Len(with) |-> <<Head(s)>> \o with[k]] \o combinations(Tail(s), r)

RECURSIVE AntecedentsFrom(_, _)
\* the antecedents of the two nested loops, from size i on
AntecedentsFrom(itemset, i) ==
    IF i >= Len(itemset) THEN <<>>
    ELSE combinations(itemset, i) \o AntecedentsFrom(itemset, i + 1)

\* for i in range(1, len(itemset)): for antecedent in combinations(itemset, i)
Antecedents(itemset) == AntecedentsFrom(itemset, 1)

\* Consequent without the filter
ConsequentUnfiltered(itemset, antecedent) == itemset

\* [item for item in itemset if item not in antecedent]
Consequent(itemset, antecedent) ==
    SelectSeq(itemset, LAMBDA x : x \notin Range(antecedent))

\* Confidence with the two supports exchanged
ConfidenceInverted(itemset_sup, antecedent_sup) == FracDiv(antecedent_sup, itemset_sup)

\* itemset_sup / antecedent_sup
Confidence(itemset_sup, antecedent_sup) == FracDiv(itemset_sup, antecedent_sup)

\* MeetsConfidence with the comparison reversed
MeetsConfidenceReversed(confidence, mc) == FracGeq(Hundredths(mc), confidence)

\* confidence >= self.min_confidence
MeetsConfidence(confidence, mc) == FracGeq(confidence, Hundredths(mc))

\* ConsequentSup that always takes the default
ConsequentSupDefault(fis, consequent) == DefaultConsequentSup

\* itemset_support.get(consequent_key, 0.0001)
ConsequentSup(fis, consequent) ==
    IF InTable(fis, Range(consequent)) THEN TableGet(fis, Range(consequent))
    ELSE DefaultConsequentSup

Rule(antecedent, consequent, itemset_sup, confidence, lift) ==
    [antecedent |-> antecedent, consequent |-> consequent, support |-> itemset_sup,
     confidence |-> confidence, lift |-> lift]

\* the body of the innermost loop for one antecedent: the split is skipped,
\* a division by a zero float raises ZeroDivisionError, or a rule is appended
Split(fis, fs, antecedent, mc) ==
    LET consequent == Consequent(fs.itemset, antecedent)
        antecedent_sup == TableGet(fis, Range(antecedent))
        confidence == Confidence(fs.support, antecedent_sup)
        consequent_sup == ConsequentSup(fis, consequent)
    IN IF ~InTable(fis, Range(antecedent)) THEN [kind |-> "skip"]
       ELSE IF FracIsZero(antecedent_sup) THEN [kind |-> "raise"]
       ELSE IF ~MeetsConfidence(confidence, mc) THEN [kind |-> "skip"]
       ELSE IF FracIsZero(consequent_sup) THEN [kind |-> "raise"]
       ELSE [kind |-> "rule",
             rule |-> Rule(antecedent, consequent, fs.support, confidence,
                           FracDiv(confidence, consequent_sup))]

\* the splits of one itemset, in the order the loops visit them
SplitsOf(fis, fs, mc) ==
    IF Len(fs.itemset) < 2 THEN <<>>
    ELSE LET as == Antecedents(fs.itemset)
         IN [k \in 1..Len(as) |-> Split(fis, fs, as[k], mc)]

Raises(splits) == \E k \in 1..Len(splits) : splits[k].kind = "raise"

\* the splits visited before the first one that raises
Visited(splits) ==
    IF Raises(splits)
    THEN SubSeq(splits, 1, (CHOOSE k \in 1..Len(splits) :
                                /\ splits[k].kind = "raise"
                                /\ \A m \in 1..(k - 1) : splits[m].kind # "raise") - 1)
    ELSE splits

\* the rules appended while those splits are visited
Appended(splits) ==
    LET kept == SelectSeq(Visited(splits), LAMBDA o : o.kind = "rule")
    IN [k \in 1..Len(kept) |-> kept[k].rule]

\* fit's loop is over: _generate_rules starts with self.rules = []
GenerateRules ==
    /\ pc = "dfs"
    /\ stack = <<>>
    /\ fit_i > Len(items)
    /\ rules' = <<>>
    /\ gen_i' = 1
    /\ pc' = "rules"
    /\ UNCHANGED <<outside, fits, min_support, min_confidence, frequent_itemsets, tid_lists,
                   num_transactions, transactions, fit_i, stack, results>>

\* one iteration of the loop over self.frequent_itemsets
RuleIter ==
    /\ pc = "rules"
    /\ gen_i <= Len(frequent_itemsets)
    /\ LET splits == SplitsOf(frequent_itemsets, frequent_itemsets[gen_i], min_confidence)
       IN /\ rules' = rules \o Appended(splits)
          /\ pc' = IF Raises(splits) THEN "raised" ELSE "rules"
    /\ gen_i' = gen_i + 1
    /\ UNCHANGED <<outside, fits, min_support, min_confidence, frequent_itemsets, tid_lists,
                   num_transactions, transactions, fit_i, stack, results>>

\* _generate_rules returns and fit returns self
FitReturn ==
    /\ pc = "rules"
    /\ gen_i > Len(frequent_itemsets)
    /\ pc' = "done"
    /\ UNCHANGED <<outside, fits, min_support, min_confidence, frequent_itemsets, rules, tid_lists,
                   num_transactions, transactions, fit_i, stack, gen_i, results>>

----------------------------------------------------------------------------
(* get_results *)

NoResults == [num_itemsets |-> -1]

\* ResultsOf that returns the entries as they are, tid_list included
ResultsOfWithTids(fis, rs) ==
    [frequent_itemsets |-> fis, rules |-> rs, num_rules |-> Len(rs), num_itemsets |-> Len(fis)]

\* the support-only view of the itemsets, the rules and the two counts
ResultsOf(fis, rs) ==
    [frequent_itemsets |->
        [k \in 1..Len(fis) |-> [itemset |-> fis[k].itemset, support |-> fis[k].support]],
     rules |-> rs,
     num_rules |-> Len(rs),
     num_itemsets |-> Len(fis)]

GetResults ==
    /\ pc = "done"
    /\ results' = ResultsOf(frequent_itemsets, rules)
    /\ pc' = "results"
    /\ UNCHANGED <<outside, fits, min_support, min_confidence, frequent_itemsets, rules, tid_lists,
                   num_transactions, transactions, fit_i, stack, gen_i>>

----------------------------------------------------------------------------
(* The miner as a state machine *)

\* ModelLoader.current_model = None: no model is loaded
NoModel == [loaded |-> FALSE]

\* no HTTP response has been sent yet
NoResponse == [status |-> 0]

\* no request has been received yet
NoRequest == [kind |-> "none"]

\* the version '0.0' of a metadata.json without models
VersionZero == <<"0", ".", "0">>

\* the directory after ModelManager.__init__: metadata.json as
\* _init_metadata writes it, and no pickle file
FreshStore ==
    [exists |-> TRUE, current_version |-> VersionZero, models |-> <<>>, files |-> <<>>]

\* number of /train requests the training service handles at a time
NumTrainers == 2

Trainers == 1..NumTrainers

\* a request thread of the training service with no request in progress
IdleTrainer ==
    [pc |-> "idle", results |-> <<>>, version |-> <<>>, timestamp |-> 0,
     metadata |-> [current_version |-> VersionZero, models |-> <<>>]]

\* the training service has sent no response yet
NoTResponse == [req |-> "none", status |-> 0]

\* no request of the recommendation service is in progress
NoThreads ==
    [reload |-> [pc |-> "idle"], recommend |-> [pc |-> "idle"]]

\* backend-api before any request
NoGateway == [endpoint |-> "none", status |-> 0]

\* no RecommendationRequest has been received yet
NoMLRequest == [user_id |-> "None", num_recommendations |-> 0]

\* the services before any model is loaded and before any request
ServicesIdle ==
    /\ current_model = NoModel
    /\ current_version = "None"
    /\ model_date = "None"
    /\ request = NoRequest
    /\ threads = NoThreads
    /\ store = FreshStore
    /\ trainers = [t \in Trainers |-> IdleTrainer]
    /\ now = 1
    /\ saves = 0
    /\ tresponse = NoTResponse
    /\ response = NoResponse
    /\ ml_request = NoMLRequest
    /\ ml_response = <<>>
    /\ gateway = NoGateway

\* EclatAlgorithm(): the instance after __init__
Init ==
    /\ min_support = DefaultMinSupport
    /\ min_confidence = DefaultMinConfidence
    /\ frequent_itemsets = <<>>
    /\ rules = <<>>
    /\ tid_lists = <<>>
    /\ num_transactions = 0
    /\ transactions = <<>>
    /\ fit_i = 1
    /\ stack = <<>>
    /\ gen_i = 1
    /\ results = NoResults
    /\ fits = 0
    /\ pc = "new"
    /\ ServicesIdle

\* eclat.fit(playlists) on the new instance, for some list of playlists
FitCall ==
    /\ pc = "new"
    /\ \E t \in Inputs : Fit(t)

Next ==
    \/ FitCall
    \/ FitLoop
    \/ EclatIter
    \/ EclatReturn
    \/ GenerateRules
    \/ RuleIter
    \/ FitReturn
    \/ GetResults

Spec == Init /\ [][Next]_vars

----------------------------------------------------------------------------
(* The same instance fitted more than once *)

\* most fit() calls made on one instance
MaxFits == 2

\* the lists of playlists of the repeated calls: at most one playlist
RefitInputs == SeqsUpTo(TxPool, 1)

\* the first fit() of the instance
FirstFit ==
    /\ pc = "new"
    /\ \E t \in RefitInputs : Fit(t)

\* fit(transactions) called again on an instance whose fit() has returned
Refit ==
    /\ pc \in {"done", "results"}
    /\ fits < MaxFits
    /\ \E t \in RefitInputs : FitEffects(t)

NextRefit ==
    \/ FirstFit
    \/ Refit
    \/ FitLoop
    \/ EclatIter
    \/ EclatReturn
    \/ GenerateRules
    \/ RuleIter
    \/ FitReturn
    \/ GetResults

SpecRefit == Init /\ [][NextRefit]_vars

----------------------------------------------------------------------------
(* The miner with the thresholds 0.4 and 0.5 on five playlists of A, B, C *)

Example ==
    << <<"A", "B">>, <<"A", "B">>, <<"A", "C">>, <<"B", "C">>, <<"A", "B", "C">> >>

\* the five playlists in every order
ExampleInputs == {[k \in 1..Len(Example) |-> Example[p[k]]] : p \in Permutations(1..Len(Example))}

\* the instance after __init__ and after the caller has set
\* min_support = 0.4 and min_confidence = 0.5 on it
InitExample ==
    /\ min_support = 40
    /\ min_confidence = 50
    /\ frequent_itemsets = <<>>
    /\ rules = <<>>
    /\ tid_lists = <<>>
    /\ num_transactions = 0
    /\ transactions = <<>>
    /\ fit_i = 1
    /\ stack = <<>>
    /\ gen_i = 1
    /\ results = NoResults
    /\ fits = 0
    /\ pc = "new"
    /\ ServicesIdle

FitExample ==
    /\ pc = "new"
    /\ \E t \in ExampleInputs : Fit(t)

NextExample ==
    \/ FitExample
    \/ FitLoop
    \/ EclatIter
    \/ EclatReturn
    \/ GenerateRules
    \/ RuleIter
    \/ FitReturn
    \/ GetResults

SpecExample == InitExample /\ [][NextExample]_vars

----------------------------------------------------------------------------
(* What the claims speak of *)

\* the tids of the transactions that contain every item of S
Containing(S) ==
    {t \in 0..(Len(transactions) - 1) : S \subseteq Range(transactions[t + 1])}

\* the number of transactions containing all of S, divided by N
TrueSupport(S) == Frac(Cardinality(Containing(S)), Len(transactions))

\* fit() has returned or raised
FitEnded == pc \in {"done", "raised", "results"}

\* frequent_itemsets has an entry whose item content is S
Emitted(S) ==
    \E k \in 1..Len(frequent_itemsets) : Range(frequent_itemsets[k].itemset) = S

\* the items that occur in the transactions
Observed == UNION {Range(transactions[t]) : t \in 1..Len(transactions)}

NonEmptyProperSubsets(S) == (SUBSET S) \ {{}, S}

HasRule(A, C) ==
    \E r \in 1..Len(rules) :
        Range(rules[r].antecedent) = A /\ Range(rules[r].consequent) = C

One == Frac(1, 1)

----------------------------------------------------------------------------
(* C1 *)

\* C1: after fit() on N >= 1 transactions, every set of 1 to 5 items whose
\* fraction of containing transactions is at least min_support has an entry
\* in frequent_itemsets
C1_Completeness ==
    (FitEnded /\ Len(transactions) >= 1) =>
        \A S \in SUBSET AllItems :
            (/\ Cardinality(S) \in 1..5
             /\ FracGeq(TrueSupport(S), Hundredths(min_support)))
            => Emitted(S)

\* fit() ended with a positive threshold count, a pair exactly at it that
\* was emitted, and observed items that were pruned as a pair
C1_Witness ==
    /\ FitEnded
    /\ min_sup_count >= 1
    /\ \E S \in SUBSET Observed :
        /\ Cardinality(S) = 2
        /\ Cardinality(Containing(S)) = min_sup_count
        /\ FracGeq(TrueSupport(S), Hundredths(min_support))
        /\ Emitted(S)
    /\ \E S \in SUBSET Observed : Cardinality(S) = 2 /\ ~Emitted(S)

----------------------------------------------------------------------------
(* C2 *)

\* C2: fit() followed by get_results() never raises, whatever the
\* transactions; no division of _generate_rules divides by zero
C2_NoFailure == pc # "raised"

----------------------------------------------------------------------------
(* C3 *)

\* C3: every emitted itemset is contained in at least the fraction
\* min_support of the transactions
C3_Soundness ==
    \A k \in 1..Len(frequent_itemsets) :
        FracGeq(TrueSupport(Range(frequent_itemsets[k].itemset)), Hundredths(min_support))

----------------------------------------------------------------------------
(* C4 *)

\* C4: after fit(), for every emitted itemset of size >= 2 and every
\* non-empty proper subset A of it with support(itemset) / support(A) at
\* least min_confidence, the rule A => itemset minus A is in the rule list
C4_RuleCompleteness ==
    FitEnded =>
        \A k \in 1..Len(frequent_itemsets) :
            LET fs == frequent_itemsets[k]
                IS == Range(fs.itemset)
            IN Len(fs.itemset) >= 2 =>
                \A A \in NonEmptyProperSubsets(IS) :
                    (/\ ~FracIsZero(TrueSupport(A))
                     /\ FracGeq(FracDiv(fs.support, TrueSupport(A)),
                                Hundredths(min_confidence)))
                    => HasRule(A, IS \ A)

----------------------------------------------------------------------------
(* C5 *)

\* C5: of two emitted itemsets, one a proper subset of the other, the
\* smaller has at least the support of the larger
C5_AntiMonotone ==
    \A j, k \in 1..Len(frequent_itemsets) :
        LET a == frequent_itemsets[j]
            b == frequent_itemsets[k]
        IN (Range(a.itemset) \subseteq Range(b.itemset) /\ Range(a.itemset) # Range(b.itemset))
            => FracGeq(a.support, b.support)

\* an emitted itemset with a positive support and an emitted subset of it
\* with a strictly larger one
C5_Witness ==
    /\ FitEnded
    /\ \E j, k \in 1..Len(frequent_itemsets) :
        LET a == frequent_itemsets[j]
            b == frequent_itemsets[k]
        IN /\ Range(a.itemset) \subseteq Range(b.itemset)
           /\ Len(a.itemset) = 2
           /\ Len(b.itemset) = 3
           /\ ~FracIsZero(b.support)
           /\ ~FracGeq(b.support, a.support)

----------------------------------------------------------------------------
(* C6 *)

\* C6: every rule has a non-empty antecedent and a non-empty consequent
\* with no item in common, whose union is the content of an emitted itemset
C6_RuleClosure ==
    \A r \in 1..Len(rules) :
        LET A == Range(rules[r].antecedent)
            C == Range(rules[r].consequent)
        IN /\ A # {}
           /\ C # {}
           /\ A \cap C = {}
           /\ Emitted(A \cup C)

\* a rule with two items before the arrow and one with two after it
C6_Witness ==
    /\ pc = "done"
    /\ \E r \in 1..Len(rules) : Len(rules[r].antecedent) = 2
    /\ \E r \in 1..Len(rules) : Len(rules[r].consequent) = 2

----------------------------------------------------------------------------
(* C7 *)

\* C7: the confidence of every rule lies between min_confidence and 1 and
\* is the support of antecedent and consequent together divided by the
\* support of the antecedent, as counted in the transactions
C7_ConfidenceBound ==
    \A r \in 1..Len(rules) :
        LET A == Range(rules[r].antecedent)
            C == Range(rules[r].consequent)
            c == rules[r].confidence
        IN /\ c.den > 0
           /\ FracGeq(c, Hundredths(min_confidence))
           /\ FracGeq(One, c)
           /\ ~FracIsZero(TrueSupport(A))
           /\ FracEq(c, FracDiv(TrueSupport(A \cup C), TrueSupport(A)))

\* a rule kept with a confidence strictly between the threshold and 1,
\* while another split of an emitted pair was dropped for its confidence
C7_Witness ==
    /\ pc = "done"
    /\ \E r \in 1..Len(rules) :
        /\ ~FracGeq(rules[r].confidence, One)
        /\ ~FracGeq(Hundredths(min_confidence), rules[r].confidence)
    /\ \E k \in 1..Len(frequent_itemsets) :
        LET fs == frequent_itemsets[k]
        IN /\ Len(fs.itemset) = 2
           /\ ~FracIsZero(fs.support)
           /\ ~HasRule({fs.itemset[1]}, {fs.itemset[2]})

----------------------------------------------------------------------------
(* C8 *)

\* C8: no entry of frequent_itemsets has more than 5 items
C8_SizeCap ==
    \A k \in 1..Len(frequent_itemsets) :
        Len(frequent_itemsets[k].itemset) <= MaxItemsetSize

\* six items that occur together in a transaction, often enough to be
\* frequent, and an emitted itemset of five of them
C8_Witness ==
    /\ FitEnded
    /\ \E S \in SUBSET Observed :
        /\ Cardinality(S) > MaxItemsetSize
        /\ Containing(S) # {}
        /\ IsFrequent(Containing(S), min_sup_count)
    /\ \E k \in 1..Len(frequent_itemsets) :
        Len(frequent_itemsets[k].itemset) = MaxItemsetSize

----------------------------------------------------------------------------
(* C9 *)

\* C9: no two entries of frequent_itemsets have the same item content, and
\* an entry of two or more items lists them in strictly increasing order
C9_OnceAndSorted ==
    /\ \A j, k \in 1..Len(frequent_itemsets) :
        j # k => Range(frequent_itemsets[j].itemset) # Range(frequent_itemsets[k].itemset)
    /\ \A k \in 1..Len(frequent_itemsets) :
        LET s == frequent_itemsets[k].itemset
        IN \A m \in 1..(Len(s) - 1) : LexLess(s[m], s[m + 1])

\* the items were first met in an order that is not the lexicographic one,
\* and an itemset of three items was emitted
C9_Witness ==
    /\ FitEnded
    /\ \E m \in 1..(Len(tid_lists) - 1) : LexLess(tid_lists[m + 1].item, tid_lists[m].item)
    /\ \E k \in 1..Len(frequent_itemsets) : Len(frequent_itemsets[k].itemset) = 3

----------------------------------------------------------------------------
(* C10 *)

\* the intersection of the tid-lists of the items of a non-empty list
MemberTids(itemset) ==
    {t \in TidsOf(tid_lists, itemset[1]) :
        \A m \in 1..Len(itemset) : t \in TidsOf(tid_lists, itemset[m])}

\* C10: the tid_list of every emitted itemset is the set of the indices of
\* the transactions that contain all its items, which is the intersection of
\* its items' tid-lists, and its support is the size of that set over N
C10_TidLists ==
    \A k \in 1..Len(frequent_itemsets) :
        LET fs == frequent_itemsets[k]
        IN /\ fs.tid_list = Containing(Range(fs.itemset))
           /\ fs.tid_list = MemberTids(fs.itemset)
           /\ fs.support = Frac(Cardinality(Containing(Range(fs.itemset))), Len(transactions))

\* a transaction lists an item twice, and that item was emitted with a
\* tid-list that holds this transaction and at least one other
C10_Witness ==
    /\ FitEnded
    /\ \E t \in 1..Len(transactions) :
        \E m, n \in 1..Len(transactions[t]) :
            /\ m # n
            /\ transactions[t][m] = transactions[t][n]
            /\ \E k \in 1..Len(frequent_itemsets) :
                /\ frequent_itemsets[k].itemset = <<transactions[t][m]>>
                /\ (t - 1) \in frequent_itemsets[k].tid_list
                /\ Cardinality(frequent_itemsets[k].tid_list) >= 2

----------------------------------------------------------------------------
(* C11 *)

\* the item contents a fit() of the current transactions has to emit: the
\* sets of 1 to 5 observed items whose tid count reaches the threshold count
FrequentSets ==
    {S \in SUBSET Observed :
        /\ Cardinality(S) \in 1..MaxItemsetSize
        /\ IsFrequent(Containing(S), min_sup_count)}

\* C11: whatever was mined before on the instance, the itemsets and rules
\* held after fit(T) are those of T alone: one entry for each frequent set
\* of T, with its tid-list in T, and no rule with a support that is not the
\* support in T of its items
C11_FreshState ==
    pc \in {"done", "results"} =>
        /\ Len(frequent_itemsets) = Cardinality(FrequentSets)
        /\ \A k \in 1..Len(frequent_itemsets) :
            /\ Range(frequent_itemsets[k].itemset) \in FrequentSets
            /\ frequent_itemsets[k].tid_list = Containing(Range(frequent_itemsets[k].itemset))
        /\ \A r \in 1..Len(rules) :
            FracEq(rules[r].support,
                   TrueSupport(Range(rules[r].antecedent) \cup Range(rules[r].consequent)))

----------------------------------------------------------------------------
(* C13 *)

\* C13: fit([]) followed by get_results() raises nothing and returns no
\* itemset, no rule and two counts of 0
C13_EmptyInput ==
    (fits = 1 /\ transactions = <<>>) =>
        /\ pc # "raised"
        /\ frequent_itemsets = <<>>
        /\ rules = <<>>
        /\ pc = "results" =>
            results = [frequent_itemsets |-> <<>>, rules |-> <<>>,
                       num_rules |-> 0, num_itemsets |-> 0]

\* get_results() has returned after fit([])
C13_Witness ==
    /\ fits = 1
    /\ transactions = <<>>
    /\ pc = "results"
    /\ results # NoResults

----------------------------------------------------------------------------
(* C14 *)

EmittedWith(S, n, d) ==
    \E k \in 1..Len(frequent_itemsets) :
        /\ Range(frequent_itemsets[k].itemset) = S
        /\ FracEq(frequent_itemsets[k].support, Frac(n, d))

\* C14: on the five playlists {A,B}, {A,B}, {A,C}, {B,C}, {A,B,C} with
\* min_support 0.4 and min_confidence 0.5 the threshold count is 2, exactly
\* A (0.8), B (0.8), C (0.6), {A,B} (0.6), {A,C} (0.4) and {B,C} (0.4) are
\* emitted, {A,B,C} is not, and the rule A => B has confidence 0.75 and
\* lift 0.9375
C14_WorkedExample ==
    (/\ transactions \in ExampleInputs
     /\ min_support = 40
     /\ min_confidence = 50
     /\ pc \in {"done", "raised", "results"}) =>
        /\ min_sup_count = 2
        /\ pc # "raised"
        /\ Len(frequent_itemsets) = 6
        /\ EmittedWith({"A"}, 8, 10)
        /\ EmittedWith({"B"}, 8, 10)
        /\ EmittedWith({"C"}, 6, 10)
        /\ EmittedWith({"A", "B"}, 6, 10)
        /\ EmittedWith({"A", "C"}, 4, 10)
        /\ EmittedWith({"B", "C"}, 4, 10)
        /\ ~Emitted({"A", "B", "C"})
        /\ \E r \in 1..Len(rules) :
            /\ rules[r].antecedent = <<"A">>
            /\ rules[r].consequent = <<"B">>
            /\ FracEq(rules[r].confidence, Frac(75, 100))
            /\ FracEq(rules[r].lift, Frac(9375, 10000))

\* get_results() has returned for the five playlists in the order given
C14_Witness ==
    /\ transactions = Example
    /\ min_support = 40
    /\ min_confidence = 50
    /\ pc = "results"
    /\ results.num_itemsets = 6

----------------------------------------------------------------------------
(* The recommendation service of src/frontend-api/app.py: strings *)

\* A Python string is the sequence of its characters.  The letters that
\* have an upper-case form, and their lower-case forms
UpperCase == <<"A", "B">>

LowerCase == <<"a", "b">>

\* the character c after str.lower()
LowerChar(c) ==
    IF \E k \in 1..Len(UpperCase) : UpperCase[k] = c
    THEN LowerCase[CHOOSE k \in 1..Len(UpperCase) : UpperCase[k] = c]
    ELSE c

\* s.lower()
Lower(s) == [k \in 1..Len(s) |-> LowerChar(s[k])]

RECURSIVE LStrip(_)
LStrip(s) ==
    IF s # <<>> /\ Head(s) = " " THEN LStrip(Tail(s)) ELSE s

RECURSIVE RStrip(_)
RStrip(s) ==
    IF s # <<>> /\ s[Len(s)] = " " THEN RStrip(SubSeq(s, 1, Len(s) - 1)) ELSE s

\* s.strip()
Strip(s) == RStrip(LStrip(s))

\* s.split(',')[0]: the characters before the first comma
RECURSIVE SplitFirst(_)
SplitFirst(s) ==
    IF s = <<>> \/ Head(s) = "," THEN <<>>
    ELSE <<Head(s)>> \o SplitFirst(Tail(s))

\* sub in s, on strings
Contains(s, sub) ==
    \E k \in 0..(Len(s) - Len(sub)) : SubSeq(s, k + 1, k + Len(sub)) = sub

----------------------------------------------------------------------------
(* RecommendationEngine *)

\* the product of two floats
FracMul(x, y) == [num |-> x.num * y.num, den |-> x.den * y.den]

\* x > y on fractions with positive denominators
FracGt(x, y) == x.num * y.den > y.num * x.den

\* [s.lower().strip() for s in input_songs]
input_normalized(input_songs) ==
    [k \in 1..Len(input_songs) |-> Strip(Lower(input_songs[k]))]

_extract_song_name(full_string) == Strip(SplitFirst(full_string))

_matches_input(antecedent, inp) ==
    \A k \in 1..Len(antecedent) :
        Strip(Lower(_extract_song_name(antecedent[k]))) \in Range(inp)

\* the comparison of the names as they are written, without lower()
_is_in_inputCaseSensitive(song_name, inp) == Strip(song_name) \in Range(inp)

_is_in_input(song_name, inp) == Strip(Lower(song_name)) \in Range(inp)

\* candidates is a dict: the sequence of its entries in insertion order
HasSong(candidates, song_name) ==
    \E k \in 1..Len(candidates) : candidates[k].song = song_name

\* the later score replaces the earlier one
PutOverwrite(candidates, song_name, score) ==
    IF HasSong(candidates, song_name)
    THEN [k \in 1..Len(candidates) |->
            IF candidates[k].song = song_name
            THEN [song |-> song_name, score |-> score]
            ELSE candidates[k]]
    ELSE Append(candidates, [song |-> song_name, score |-> score])

\* candidates[song_name] = max(candidates[song_name], score), or the
\* insertion of a new name
Put(candidates, song_name, score) ==
    IF HasSong(candidates, song_name)
    THEN [k \in 1..Len(candidates) |->
            IF candidates[k].song = song_name /\ FracGt(score, candidates[k].score)
            THEN [song |-> song_name, score |-> score]
            ELSE candidates[k]]
    ELSE Append(candidates, [song |-> song_name, score |-> score])

\* the inner loop over rule['consequent'], from position k on
RECURSIVE AddConsequents(_, _, _, _, _)
AddConsequents(candidates, consequent, k, score, inp) ==
    IF k > Len(consequent) THEN candidates
    ELSE LET song_name == _extract_song_name(consequent[k])
         IN AddConsequents(
                IF _is_in_input(song_name, inp) THEN candidates
                ELSE Put(candidates, song_name, score),
                consequent, k + 1, score, inp)

\* the loop over self.rules, from position r on
RECURSIVE CandidatesFrom(_, _, _, _)
CandidatesFrom(candidates, rs, r, inp) ==
    IF r > Len(rs) THEN candidates
    ELSE CandidatesFrom(
            IF _matches_input(rs[r].antecedent, inp)
            THEN AddConsequents(candidates, rs[r].consequent, 1,
                                FracMul(rs[r].confidence, rs[r].lift), inp)
            ELSE candidates,
            rs, r + 1, inp)

\* e goes after the entries whose score is at least its own
InsertDesc(sorted, e) ==
    LET before == {k \in 1..Len(sorted) : ~FracGt(e.score, sorted[k].score)}
        n == Cardinality(before)
    IN SubSeq(sorted, 1, n) \o <<e>> \o SubSeq(sorted, n + 1, Len(sorted))

\* sorted(candidates.items(), key=score, reverse=True): a stable sort,
\* entries of equal score keep their insertion order
RECURSIVE SortedDesc(_, _)
SortedDesc(sorted, rest) ==
    IF rest = <<>> THEN sorted
    ELSE SortedDesc(InsertDesc(sorted, Head(rest)), Tail(rest))

ranked(rs, input_songs) ==
    SortedDesc(<<>>, CandidatesFrom(<<>>, rs, 1, input_normalized(input_songs)))

\* ranked[:top_n], top_n >= 0
Take(seq, top_n) == SubSeq(seq, 1, IF Len(seq) < top_n THEN Len(seq) ELSE top_n)

\* RecommendationEngine(model).recommend(input_songs, top_n)
recommend(rs, input_songs, top_n) ==
    LET top == Take(ranked(rs, input_songs), top_n)
    IN [k \in 1..Len(top) |-> top[k].song]

\* recommend(input_songs, top_n=5) at the endpoint
TopN == 5

----------------------------------------------------------------------------
(* The models and the requests of the recommendation service *)

\* items "Song Name,Artist Name" as the training side writes them
ItemA == <<"a", ",", "x">>

ItemUpperA == <<"A", " ", ",", "y">>

ItemB == <<" ", "b", ",", "x">>

ItemC == <<"c">>

ItemD == <<"d", ",", "x">>

ItemE == <<"e", ",", "x">>

ItemF == <<"f", ",", "x">>

ItemG == <<"g", ",", "y">>

ItemH == <<"h", ",", "y">>

MkRule(a, c, conf, lift) ==
    [antecedent |-> a, consequent |-> c, confidence |-> conf, lift |-> lift]

\* the rules a stored model is made of
RulePool ==
    { MkRule(<<ItemUpperA>>, <<ItemC, ItemB>>, Frac(1, 1), Frac(3, 2)),
      MkRule(<<ItemA, ItemB>>, <<ItemC, ItemD>>, Frac(1, 3), Frac(1, 1)),
      MkRule(<<ItemB>>, <<ItemA, ItemUpperA>>, Frac(1, 2), Frac(1, 1)),
      MkRule(<<ItemA>>, <<ItemC, ItemD, ItemE, ItemF>>, Frac(1, 1), Frac(1, 1)),
      MkRule(<<ItemA>>, <<ItemG, ItemH, ItemB>>, Frac(2, 3), Frac(1, 1)) }

MaxRules == 3

\* the 'rules' lists of the models that may be loaded
RuleLists == SeqsUpTo(RulePool, MaxRules)

\* JSON values
JNull == [kind |-> "null"]

JNumber(n) == [kind |-> "number", value |-> n]

JString(s) == [kind |-> "string", chars |-> s]

JArray(es) == [kind |-> "array", elems |-> es]

\* an object: its keys, and the value under 'songs' when it has that key
JObject(ks, v) == [kind |-> "object", keys |-> ks, songs |-> v]

\* the string 'songs'
SongsKey == <<"s", "o", "n", "g", "s">>

\* song names a client may send
SongPool == { <<" ", "A", " ">>, <<"b">>, <<"z">> }

MaxSongs == 2

\* the entries a client may put in 'songs': names, blank strings, a number
SongEntries ==
    {JString(s) : s \in SongPool} \cup {JString(<<" ">>), JNumber(7)}

\* the bodies with a non-empty list under 'songs'
ListBodies ==
    {JObject({"songs"}, JArray(es)) : es \in SeqsUpTo(SongEntries, MaxSongs) \ {<<>>}}

\* the other JSON bodies
OtherBodies ==
    { JNull, JNumber(0), JNumber(5),
      JString(<<"x">> \o SongsKey), JString(<<"a">>),
      JArray(<<>>), JArray(<<JString(SongsKey)>>), JArray(<<JString(<<"a">>)>>),
      JObject({}, JNull), JObject({"other"}, JNull),
      JObject({"songs"}, JString(<<"a">>)), JObject({"songs"}, JArray(<<>>)) }

Bodies == ListBodies \cup OtherBodies

----------------------------------------------------------------------------
(* validate_recommend_request and the endpoint POST /api/recommender *)

\* not data
Falsy(data) ==
    \/ data.kind = "null"
    \/ data.kind = "number" /\ data.value = 0
    \/ data.kind = "string" /\ data.chars = <<>>
    \/ data.kind = "array" /\ data.elems = <<>>
    \/ data.kind = "object" /\ data.keys = {}

\* 'songs' in data raises TypeError on a number
InRaises(data) == data.kind = "number"

\* 'songs' in data: a key of an object, an element of an array, a
\* substring of a string
HasSongs(data) ==
    \/ data.kind = "object" /\ "songs" \in data.keys
    \/ data.kind = "array"
         /\ \E k \in 1..Len(data.elems) :
                /\ data.elems[k].kind = "string"
                /\ data.elems[k].chars = SongsKey
    \/ data.kind = "string" /\ Contains(data.chars, SongsKey)

\* data['songs'] raises TypeError on an array and on a string
IndexRaises(data) == data.kind \in {"array", "string"}

Invalid(msg) == [valid |-> FALSE, raised |-> FALSE, error |-> msg]

Raised == [valid |-> FALSE, raised |-> TRUE, error |-> "TypeError"]

Valid == [valid |-> TRUE, raised |-> FALSE, error |-> "None"]

\* the loop over the songs, from position k on
RECURSIVE ValidateSongs(_, _)
ValidateSongs(songs, k) ==
    IF k > Len(songs) THEN Valid
    ELSE IF songs[k].kind # "string" THEN Invalid("Cada musica deve ser uma string")
    ELSE IF Strip(songs[k].chars) = <<>> THEN Invalid("Nome de musica nao pode ser vazio")
    ELSE ValidateSongs(songs, k + 1)

\* the validation without the test of the length of the list
validate_recommend_requestNoLength(data) ==
    IF Falsy(data) THEN Invalid("Campo 'songs' e obrigatorio")
    ELSE IF InRaises(data) THEN Raised
    ELSE IF ~HasSongs(data) THEN Invalid("Campo 'songs' e obrigatorio")
    ELSE IF IndexRaises(data) THEN Raised
    ELSE IF data.songs.kind # "array" THEN Invalid("'songs' deve ser uma lista")
    ELSE ValidateSongs(data.songs.elems, 1)

validate_recommend_request(data) ==
    IF Falsy(data) THEN Invalid("Campo 'songs' e obrigatorio")
    ELSE IF InRaises(data) THEN Raised
    ELSE IF ~HasSongs(data) THEN Invalid("Campo 'songs' e obrigatorio")
    ELSE IF IndexRaises(data) THEN Raised
    ELSE IF data.songs.kind # "array" THEN Invalid("'songs' deve ser uma lista")
    ELSE IF Len(data.songs.elems) = 0 THEN Invalid("'songs' nao pode ser vazia")
    ELSE ValidateSongs(data.songs.elems, 1)

\* the strings of a validated list of songs
SongsOf(data) == [k \in 1..Len(data.songs.elems) |-> data.songs.elems[k].chars]

\* the response of POST /api/recommender to the JSON body data
RecommendResponse(data) ==
    IF current_model = NoModel
    THEN [status |-> 503, error |-> "No trained model available"]
    ELSE LET v == validate_recommend_request(data)
         IN IF v.raised THEN [status |-> 500, error |-> v.error]
            ELSE IF ~v.valid THEN [status |-> 400, error |-> v.error]
            ELSE [status |-> 200,
                  songs |-> recommend(current_model.rules, SongsOf(data), TopN),
                  version |-> current_version,
                  model_date |-> model_date]

\* POST /api/recommender
PostRecommender ==
    \E data \in Bodies :
        /\ request' = data
        /\ response' = RecommendResponse(data)
        /\ UNCHANGED <<miner, current_model, current_version, model_date, threads, training, mlservice>>

\* the service after its start-up load: a stored model was loaded, or
\* the load failed and no model is loaded
InitFrontend ==
    /\ min_support = DefaultMinSupport
    /\ min_confidence = DefaultMinConfidence
    /\ frequent_itemsets = <<>>
    /\ rules = <<>>
    /\ tid_lists = <<>>
    /\ num_transactions = 0
    /\ transactions = <<>>
    /\ fit_i = 1
    /\ stack = <<>>
    /\ gen_i = 1
    /\ results = NoResults
    /\ fits = 0
    /\ pc = "new"
    /\ request = NoRequest
    /\ threads = NoThreads
    /\ store = FreshStore
    /\ trainers = [t \in Trainers |-> IdleTrainer]
    /\ now = 1
    /\ saves = 0
    /\ tresponse = NoTResponse
    /\ response = NoResponse
    /\ ml_request = NoMLRequest
    /\ ml_response = <<>>
    /\ gateway = NoGateway
    /\ \/ /\ current_model = NoModel
          /\ current_version = "None"
          /\ model_date = "None"
       \/ /\ \E rs \in RuleLists : current_model = [loaded |-> TRUE, rules |-> rs]
          /\ current_version = "1.0"
          /\ model_date = "2025-11-09T20:00:00"

NextFrontend == PostRecommender

SpecFrontend == InitFrontend /\ [][NextFrontend]_vars

----------------------------------------------------------------------------
(* What the claims on the recommendation service speak of *)

\* the endpoint has answered 200: recommend() has run on the songs of
\* the request with the rules of the loaded model
Recommended == response.status = 200

\* a name as it is compared: trimmed, without regard to case
Normal(s) == Strip(Lower(s))

\* the normalized songs of the request
InputNames == {Normal(request.songs.elems[k].chars) : k \in 1..Len(request.songs.elems)}

\* the song name of an item "Song Name,Artist Name"
NameOf(item) == Strip(SplitFirst(item))

LoadedRules == current_model.rules

\* the rules whose antecedent song names are all in the input
Applicable ==
    {r \in 1..Len(LoadedRules) :
        \A item \in Range(LoadedRules[r].antecedent) : Normal(NameOf(item)) \in InputNames}

\* the applicable rules that have the song among their consequents
RulesFor(song) ==
    {r \in Applicable : \E item \in Range(LoadedRules[r].consequent) : NameOf(item) = song}

CandidateSongs ==
    {song \in {NameOf(item) : item \in UNION {Range(LoadedRules[r].consequent) : r \in Applicable}} :
        Normal(song) \notin InputNames}

ScoreOfRule(r) == FracMul(LoadedRules[r].confidence, LoadedRules[r].lift)

\* the maximum of confidence * lift over the rules of a candidate
BestScore(song) ==
    ScoreOfRule(CHOOSE r \in RulesFor(song) :
                    \A q \in RulesFor(song) : FracGeq(ScoreOfRule(r), ScoreOfRule(q)))

NoRepeats(seq) == \A k, j \in 1..Len(seq) : seq[k] = seq[j] => k = j

----------------------------------------------------------------------------
(* C15 *)

\* C15: for any loaded model and any valid input list, recommend(input,
\* top_n=5) returns at most 5 song names, no name twice, and none of them
\* equal, trimmed and without regard to case, to a song of the input.
C15_AtMostFiveNew ==
    Recommended =>
        /\ Len(response.songs) <= 5
        /\ NoRepeats(response.songs)
        /\ \A k \in 1..Len(response.songs) : Normal(response.songs[k]) \notin InputNames

\* five names were returned out of more than five candidates, and a
\* consequent of an applicable rule was left out because the input has it
C15_Witness ==
    /\ Recommended
    /\ Len(response.songs) = 5
    /\ Cardinality(CandidateSongs) > 5
    /\ \E r \in Applicable : \E item \in Range(LoadedRules[r].consequent) :
            Normal(NameOf(item)) \in InputNames

----------------------------------------------------------------------------
(* C16 *)

\* the model has no item whose song name is a song of the input
InputUnknown ==
    \A r \in 1..Len(LoadedRules) :
        \A item \in Range(LoadedRules[r].antecedent) \cup Range(LoadedRules[r].consequent) :
            Normal(NameOf(item)) \notin InputNames

\* C16: recommend() returns the first top_n of the candidate songs in
\* descending order of score.  The candidates are the song names of the
\* consequents of the rules whose antecedent song names are all in the
\* normalized input, less the songs of the input; the score of a candidate
\* is the maximum of confidence * lift over those rules.  An input of
\* songs unknown to the model gives the empty list.
C16_TopCandidates ==
    Recommended =>
        /\ Range(response.songs) \subseteq CandidateSongs
        /\ NoRepeats(response.songs)
        /\ Len(response.songs) =
              IF Cardinality(CandidateSongs) < TopN THEN Cardinality(CandidateSongs) ELSE TopN
        /\ \A k, j \in 1..Len(response.songs) :
              k < j => FracGeq(BestScore(response.songs[k]), BestScore(response.songs[j]))
        /\ \A song \in CandidateSongs \ Range(response.songs) :
              \A k \in 1..Len(response.songs) :
                  FracGeq(BestScore(response.songs[k]), BestScore(song))
        /\ InputUnknown => response.songs = <<>>

\* more candidates than top_n, of several scores, and one of the returned
\* songs is the consequent of two applicable rules of different scores
C16_Witness ==
    /\ Recommended
    /\ Cardinality(CandidateSongs) > TopN
    /\ \E k, j \in 1..Len(response.songs) :
          ~FracEq(BestScore(response.songs[k]), BestScore(response.songs[j]))
    /\ \E k \in 1..Len(response.songs) :
          \E r, q \in RulesFor(response.songs[k]) : ~FracEq(ScoreOfRule(r), ScoreOfRule(q))

----------------------------------------------------------------------------
(* C17 *)

\* the body has no 'songs'
LacksSongs(data) == ~(data.kind = "object" /\ "songs" \in data.keys)

\* 'songs' is not a list, is the empty list, or has an entry that is not
\* a string or is blank
BadSongs(songs) ==
    \/ songs.kind # "array"
    \/ songs.elems = <<>>
    \/ \E k \in 1..Len(songs.elems) :
          \/ songs.elems[k].kind # "string"
          \/ Strip(songs.elems[k].chars) = <<>>

Rejectable(data) == LacksSongs(data) \/ BadSongs(data.songs)

\* C17: POST /api/recommender answers 503 whenever no model is loaded;
\* with a model loaded it answers 400 with an 'error' field when the body
\* lacks 'songs' or 'songs' is not a list, is empty, or has a non-string or
\* blank entry, and 200 with 'songs', 'version' and 'model_date' otherwise.
C17_StatusCodes ==
    request # NoRequest =>
        IF current_model = NoModel THEN response.status = 503
        ELSE IF Rejectable(request)
             THEN response.status = 400 /\ "error" \in DOMAIN response
             ELSE /\ response.status = 200
                  /\ {"songs", "version", "model_date"} \subseteq DOMAIN response

----------------------------------------------------------------------------
(* The ML service of src/services/ml-service/app.py *)

\* list(USERS_DATA.keys())
users == <<"user1", "user2", "user3", "user4">>

\* USERS_DATA[users[i]]["playlists"]
UserPlaylists == << <<1, 2, 3>>, <<2, 3, 4>>, <<1, 4, 5>>, <<3, 5, 6>> >>

\* list(PLAYLISTS_DATA.keys())
playlists == <<1, 2, 3, 4, 5, 6>>

\* PLAYLISTS_DATA[playlists[j]]["popularity"], in hundredths
Popularity == <<90, 95, 85, 88, 82, 87>>

\* create_user_item_matrix
matrix(i, j) == IF playlists[j] \in Range(UserPlaylists[i]) THEN 1 ELSE 0

RECURSIVE SumTo(_, _)
SumTo(f, n) == IF n = 0 THEN 0 ELSE f[n] + SumTo(f, n - 1)

Dot(i, k) == SumTo([j \in 1..Len(playlists) |-> matrix(i, j) * matrix(k, j)], Len(playlists))

\* the square root of n; every user has three playlists, so the product
\* of two row norms is the integer 3
Sqrt(n) == CHOOSE r \in 0..n : r * r = n

\* cosine_similarity(matrix)[i][k]
Cosine(i, k) == Frac(Dot(i, k), Sqrt(Dot(i, i) * Dot(k, k)))

FracAdd(x, y) == [num |-> x.num * y.den + y.num * x.den, den |-> x.den * y.den]

Zero == Frac(0, 1)

\* the sum of similarity * matrix[i][j] over the other users i <= n
RECURSIVE WeightedTo(_, _, _)
WeightedTo(user_idx, j, n) ==
    IF n = 0 THEN Zero
    ELSE IF n = user_idx THEN WeightedTo(user_idx, j, n - 1)
    ELSE FracAdd(WeightedTo(user_idx, j, n - 1),
                 FracMul(Cosine(user_idx, n), Frac(matrix(n, j), 1)))

\* weighted_ratings after the entries of the user's own playlists are
\* set to 0
weighted_ratings(user_idx) ==
    [j \in 1..Len(playlists) |->
        IF playlists[j] \in Range(UserPlaylists[user_idx]) THEN Zero
        ELSE WeightedTo(user_idx, j, Len(users))]

\* np.argsort(r): the orders of the indices by ascending value.  The
\* default sort is not stable: equal values may come in any order
ArgSorts(r) ==
    {p \in Permutations(DOMAIN r) :
        \A k, j \in DOMAIN r : k < j => FracGeq(r[p[j]], r[p[k]])}

\* seq[::-1]
Reversed(seq) == [k \in 1..Len(seq) |-> seq[Len(seq) + 1 - k]]

\* seq[:n]; a negative n counts from the end
Slice(seq, n) ==
    LET stop == IF n >= Len(seq) THEN Len(seq)
                ELSE IF n >= 0 THEN n
                ELSE IF Len(seq) + n >= 0 THEN Len(seq) + n ELSE 0
    IN SubSeq(seq, 1, stop)

\* sorted(PLAYLISTS_DATA.items(), key=popularity, reverse=True): the
\* popularities are all different
ByPopularity ==
    CHOOSE p \in Permutations(DOMAIN playlists) :
        \A k, j \in DOMAIN playlists : k < j => Popularity[p[k]] > Popularity[p[j]]

UserIndex(user_id) == CHOOSE i \in 1..Len(users) : users[i] = user_id

\* the lists get_recommendations_collaborative may return
Recommendations(user_id, num_recommendations) ==
    IF user_id \notin Range(users)
    THEN {[k \in 1..Len(Slice(ByPopularity, num_recommendations)) |->
            [playlist_id |-> playlists[ByPopularity[k]],
             score |-> Hundredths(Popularity[ByPopularity[k]])]]}
    ELSE LET r == weighted_ratings(UserIndex(user_id))
         IN {[k \in 1..Len(Slice(Reversed(p), num_recommendations)) |->
                [playlist_id |-> playlists[Reversed(p)[k]],
                 score |-> r[Reversed(p)[k]]]] : p \in ArgSorts(r)}

MaxNum == 7

\* the values of num_recommendations, an int field without bounds
Nums == (0 - MaxNum)..MaxNum

UserIds == Range(users) \cup {"new_user"}

\* POST /recommend
Recommend ==
    \E user_id \in UserIds, num \in Nums :
        \E recs \in Recommendations(user_id, num) :
            /\ ml_request' = [user_id |-> user_id, num_recommendations |-> num]
            /\ ml_response' = recs
            /\ UNCHANGED <<miner, frontend, training, gateway>>

NextML == Recommend

SpecML == Init /\ [][NextML]_vars

----------------------------------------------------------------------------
(* C18 *)

\* C18: for every user_id and every num_recommendations,
\* get_recommendations_collaborative returns at most num_recommendations
\* playlists, and for an existing user none of them is a playlist the
\* user already has.
C18_AtMostAndNew ==
    ml_request # NoMLRequest =>
        /\ Len(ml_response) <= ml_request.num_recommendations
        /\ ml_request.user_id \in Range(users) =>
              \A k \in 1..Len(ml_response) :
                  ml_response[k].playlist_id
                      \notin Range(UserPlaylists[UserIndex(ml_request.user_id)])

----------------------------------------------------------------------------
(* C19 *)

\* floor(min_support * N), min_support in hundredths
FloorCount == (min_support * Len(transactions)) \div 100

\* the number of transactions that contain every item of S
Count(S) == Cardinality(Containing(S))

\* the non-empty sets of at most 5 observed items
SmallSets == {S \in SUBSET Observed : Cardinality(S) \in 1..5}

EmittedSets == {Range(frequent_itemsets[k].itemset) : k \in 1..Len(frequent_itemsets)}

----------------------------------------------------------------------------
(* C20 *)

Last(seq) == seq[Len(seq)]

\* C20: a combination whose tid-list intersection has fewer than
\* min_count elements is not emitted and is never the prefix of a call of
\* _eclat_recursive; the remaining_items of every call are all strictly
\* later in the order of the strings than the last item of its prefix.
C20_Pruning ==
    /\ \A k \in 1..Len(frequent_itemsets) :
          Count(Range(frequent_itemsets[k].itemset)) >= FloorCount
    /\ \A d \in 1..Len(stack) :
          /\ Count(Range(stack[d].prefix)) >= FloorCount
          /\ \A k \in 1..Len(stack[d].remaining_items) :
                LexLess(Last(stack[d].prefix), stack[d].remaining_items[k])

\* a call is active inside another one whose loop has already passed a
\* candidate that was pruned
C20_Witness ==
    /\ pc = "dfs"
    /\ Len(stack) = 2
    /\ FloorCount >= 1
    /\ \E j \in 1..(stack[1].i - 1) :
          LET S == Range(stack[1].prefix) \cup {stack[1].remaining_items[j]}
          IN Count(S) < FloorCount /\ ~Emitted(S)

----------------------------------------------------------------------------
(* C21 *)

\* the loop of _generate_rules has an entry left: RuleIter is enabled, and
\* it always changes gen_i
RuleIterEnabled == pc = "rules" /\ gen_i <= Len(frequent_itemsets)

\* the steps other than RuleIter
OtherSteps ==
    \/ FitCall
    \/ FitLoop
    \/ EclatIter
    \/ EclatReturn
    \/ GenerateRules
    \/ FitReturn
    \/ GetResults

\* WF_vars(RuleIter), with RuleIterEnabled for ENABLED <<RuleIter>>_vars
FairRuleIter == []<>(~RuleIterEnabled) \/ []<><<RuleIter>>_vars

\* The steps of fit() and of its caller are the steps of one sequential
\* computation: while one of them is possible, one is taken
SpecLive == Init /\ [][Next]_vars /\ WF_vars(OtherSteps) /\ FairRuleIter

\* in every active call of _eclat_recursive the prefix has 1 to 4 items,
\* and no more than 4 calls are nested
BoundedRecursion ==
    /\ Len(stack) <= 4
    /\ \A d \in 1..Len(stack) : Len(stack[d].prefix) \in 1..4

\* C21: fit() terminates on every finite list of transactions, and in
\* every call of _eclat_recursive the prefix has between 1 and 4 items, so
\* that the calls never nest deeper than 4.
C21_Termination == []BoundedRecursion /\ (pc = "dfs" ~> FitEnded)

\* four nested calls, the innermost with a prefix of four items
C21_Witness ==
    /\ pc = "dfs"
    /\ Len(stack) = 4
    /\ Len(stack[4].prefix) = 4

----------------------------------------------------------------------------
(* C22 *)

\* the lookup table of _generate_rules is built: fit's loops are over
TableBuilt == pc \in {"rules", "done", "results"} \/ (pc = "raised" /\ num_transactions > 0)

\* every consequent that _generate_rules can look up is a key of the
\* table: the consequents of an itemset are its non-empty proper subsets
ConsequentsInTable ==
    LET keys == {Range(frequent_itemsets[k].itemset) : k \in 1..Len(frequent_itemsets)}
    IN \A S \in keys : NonEmptyProperSubsets(S) \subseteq keys

\* C22: every emitted rule carries the support of the itemset it comes
\* from and a lift equal to its confidence divided by the true support of
\* its consequent; every consequent of an emitted itemset is in the lookup
\* table, so the default support 0.0001 is never used.
C22_RuleMetrics ==
    /\ \A r \in 1..Len(rules) :
          LET A == Range(rules[r].antecedent)
              C == Range(rules[r].consequent)
          IN /\ \E k \in 1..Len(frequent_itemsets) :
                    /\ Range(frequent_itemsets[k].itemset) = A \cup C
                    /\ rules[r].support = frequent_itemsets[k].support
             /\ FracEq(rules[r].support, TrueSupport(A \cup C))
             /\ ~FracIsZero(TrueSupport(C))
             /\ FracEq(rules[r].lift, FracDiv(rules[r].confidence, TrueSupport(C)))
    /\ TableBuilt => ConsequentsInTable

\* fit() has returned rules, one of them with a consequent of two items
\* and a lift other than 1
C22_Witness ==
    /\ pc = "done"
    /\ \E r \in 1..Len(rules) :
          /\ Len(rules[r].consequent) >= 2
          /\ ~FracEq(rules[r].lift, One)

----------------------------------------------------------------------------
(* C23 *)

\* C23: get_results() returns one entry without tid_list for each entry
\* of frequent_itemsets, in the same order and with the same items and
\* support, the list of rules as it is, num_itemsets equal to the number
\* of itemsets returned and num_rules to the number of rules returned.
C23_Results ==
    pc = "results" =>
        /\ Len(results.frequent_itemsets) = Len(frequent_itemsets)
        /\ \A k \in 1..Len(frequent_itemsets) :
              /\ DOMAIN results.frequent_itemsets[k] = {"itemset", "support"}
              /\ results.frequent_itemsets[k].itemset = frequent_itemsets[k].itemset
              /\ results.frequent_itemsets[k].support = frequent_itemsets[k].support
        /\ results.rules = rules
        /\ results.num_itemsets = Len(results.frequent_itemsets)
        /\ results.num_rules = Len(results.rules)

\* results with rules, and with more itemsets than rules or the reverse
C23_Witness ==
    /\ pc = "results"
    /\ results.num_rules > 0
    /\ results.num_itemsets # results.num_rules

----------------------------------------------------------------------------
(* The training service of src/app.py: ModelManager *)

DigitChars == <<"0", "1", "2", "3", "4", "5", "6", "7", "8", "9">>

\* str(n) for n >= 0
RECURSIVE Digits(_)
Digits(n) ==
    IF n < 10 THEN <<DigitChars[n + 1]>>
    ELSE Digits(n \div 10) \o <<DigitChars[(n % 10) + 1]>>

\* f"{major}.0"
FormatVersion(major) == Digits(major) \o <<".", "0">>

DigitValue(c) == (CHOOSE k \in 1..Len(DigitChars) : DigitChars[k] = c) - 1

\* the number written by a string of digits
RECURSIVE DigitsValue(_)
DigitsValue(s) ==
    IF s = <<>> THEN 0
    ELSE 10 * DigitsValue(SubSeq(s, 1, Len(s) - 1)) + DigitValue(s[Len(s)])

\* the characters before the first '.'
RECURSIVE IntegerPart(_)
IntegerPart(s) ==
    IF s = <<>> \/ Head(s) = "." THEN <<>>
    ELSE <<Head(s)>> \o IntegerPart(Tail(s))

\* int(float(current)) of a version string 'k.0'
ParseMajor(current) == DigitsValue(IntegerPart(current))

\* FormatNext without the increment
FormatSame(current) == FormatVersion(ParseMajor(current))

\* get_next_version on the metadata read: f"{int(float(current)) + 1}.0"
FormatNext(current) == FormatVersion(ParseMajor(current) + 1)

\* os.path.join(models_dir, f'association_rules_v{version}.pkl')
PathOf(version) == <<"v">> \o version

\* get_metadata(): the content of metadata.json, or the default
get_metadata ==
    IF store.exists
    THEN [current_version |-> store.current_version, models |-> store.models]
    ELSE [current_version |-> VersionZero, models |-> <<>>]

\* d[key] = value on a dict
DictSet(d, key, value) ==
    [k \in DOMAIN d \cup {key} |-> IF k = key THEN value ELSE d[k]]

\* the entry of metadata['models'] written by save_model
ModelEntry(version, timestamp, model_data) ==
    [path |-> PathOf(version), timestamp |-> timestamp, num_rules |-> Len(model_data.rules)]

----------------------------------------------------------------------------
(* The training service: POST /train and GET /model/info *)

\* s.startswith(p)
StartsWith(s, p) == Len(s) >= Len(p) /\ SubSeq(s, 1, Len(p)) = p

Http == <<"h", "t", "t", "p", ":", "/", "/">>

Https == <<"h", "t", "t", "p", "s", ":", "/", "/">>

\* the string 'dataset_url'
UrlKey == <<"d", "a", "t", "a", "s", "e", "t", "_", "u", "r", "l">>

\* a JSON object of a /train request: its keys, and the value under
\* 'dataset_url' when it has that key
JTrain(ks, v) == [kind |-> "object", keys |-> ks, dataset_url |-> v]

\* the JSON bodies of the /train requests
TrainBodies ==
    { JNull, JNumber(5), JString(UrlKey), JString(<<"a">>),
      JTrain({}, JNull), JTrain({"other"}, JNull),
      JTrain({"dataset_url"}, JNumber(5)),
      JTrain({"dataset_url"}, JString(<<"f", "t", "p", ":", "/", "/", "x">>)),
      JTrain({"dataset_url"}, JString(Http \o <<"x">>)),
      JTrain({"dataset_url"}, JString(Https \o <<"x">>)) }

\* 'dataset_url' in data
HasUrl(data) ==
    \/ data.kind = "object" /\ "dataset_url" \in data.keys
    \/ data.kind = "array"
         /\ \E k \in 1..Len(data.elems) :
                /\ data.elems[k].kind = "string"
                /\ data.elems[k].chars = UrlKey
    \/ data.kind = "string" /\ Contains(data.chars, UrlKey)

\* the validation without the test of the scheme of the URL
validate_train_requestAnyUrl(data) ==
    IF Falsy(data) THEN Invalid("Request body vazio")
    ELSE IF InRaises(data) THEN Raised
    ELSE IF ~HasUrl(data) THEN Invalid("Campo 'dataset_url' e obrigatorio")
    ELSE IF IndexRaises(data) THEN Raised
    ELSE Valid

validate_train_request(data) ==
    IF Falsy(data) THEN Invalid("Request body vazio")
    ELSE IF InRaises(data) THEN Raised
    ELSE IF ~HasUrl(data) THEN Invalid("Campo 'dataset_url' e obrigatorio")
    ELSE IF IndexRaises(data) THEN Raised
    ELSE IF \/ data.dataset_url.kind # "string"
            \/ ~(\/ StartsWith(data.dataset_url.chars, Http)
                 \/ StartsWith(data.dataset_url.chars, Https))
         THEN Invalid("URL invalida")
    ELSE Valid

\* the results of mining a downloaded dataset: get_results() of a fit()
\* that returned, with its list of rules
MinedResults == {[loaded |-> TRUE, rules |-> rs] : rs \in {r \in RuleLists : Len(r) = 1}}

\* what happens to a validated request before save_model: the download
\* or the parsing raises, fit() raises, or the mining returns results
Outcomes ==
    {[kind |-> "download_error"], [kind |-> "mining_error"]}
        \cup {[kind |-> "results", results |-> r] : r \in MinedResults}

\* most calls of save_model
MaxSaves == 3

\* the calls of save_model in progress
InProgress == {t \in Trainers : trainers[t].pc # "idle"}

\* train_model up to the call of save_model: validation, download and
\* mining touch nothing but the request's own variables
TrainBegin(t, data, outcome) ==
    LET v == validate_train_request(data)
    IN /\ trainers[t].pc = "idle"
       /\ IF v.raised
          THEN /\ tresponse' = [req |-> "train", status |-> 500, message |-> v.error]
               /\ UNCHANGED trainers
          ELSE IF ~v.valid
          THEN /\ tresponse' = [req |-> "train", status |-> 400, message |-> v.error]
               /\ UNCHANGED trainers
          ELSE IF outcome.kind # "results"
          THEN /\ tresponse' = [req |-> "train", status |-> 500, message |-> outcome.kind]
               /\ UNCHANGED trainers
          ELSE /\ saves + Cardinality(InProgress) < MaxSaves
               /\ trainers' = [trainers EXCEPT ![t] =
                                  [IdleTrainer EXCEPT !.pc = "next_version",
                                                      !.results = outcome.results]]
               /\ UNCHANGED tresponse
       /\ UNCHANGED <<miner, frontend, mlservice, store, now, saves>>

\* POST /train received while another request may be in progress
TrainRequest ==
    \E t \in Trainers, data \in TrainBodies, outcome \in Outcomes :
        TrainBegin(t, data, outcome)

\* POST /train received while no other request is in progress
TrainRequestAlone ==
    /\ InProgress = {}
    /\ \E data \in TrainBodies, outcome \in Outcomes : TrainBegin(1, data, outcome)

\* save_model: version = self.get_next_version(); timestamp = now
NextVersion ==
    \E t \in Trainers :
        /\ trainers[t].pc = "next_version"
        /\ trainers' = [trainers EXCEPT ![t].version = FormatNext(get_metadata.current_version),
                                        ![t].timestamp = now,
                                        ![t].pc = "dump"]
        /\ now' = now + 1
        /\ UNCHANGED <<miner, frontend, mlservice, store, saves, tresponse>>

\* save_model: pickle.dump(model_data, f) to model_path
DumpModel ==
    \E t \in Trainers :
        /\ trainers[t].pc = "dump"
        /\ store' = [store EXCEPT !.files =
                        DictSet(store.files, PathOf(trainers[t].version), trainers[t].results)]
        /\ trainers' = [trainers EXCEPT ![t].pc = "read"]
        /\ UNCHANGED <<miner, frontend, mlservice, now, saves, tresponse>>

\* save_model: metadata = self.get_metadata()
ReadMetadata ==
    \E t \in Trainers :
        /\ trainers[t].pc = "read"
        /\ trainers' = [trainers EXCEPT ![t].metadata = get_metadata, ![t].pc = "write"]
        /\ UNCHANGED <<miner, frontend, mlservice, store, now, saves, tresponse>>

\* save_model: the metadata read is updated and written to metadata.json;
\* save_model returns and train_model answers 200
WriteMetadata ==
    \E t \in Trainers :
        LET me == trainers[t]
        IN /\ me.pc = "write"
           /\ store' = [store EXCEPT
                           !.exists = TRUE,
                           !.current_version = me.version,
                           !.models = DictSet(me.metadata.models, me.version,
                                              ModelEntry(me.version, me.timestamp, me.results))]
           /\ tresponse' = [req |-> "train", status |-> 200, version |-> me.version,
                            timestamp |-> me.timestamp, model_path |-> PathOf(me.version)]
           /\ trainers' = [trainers EXCEPT ![t] = IdleTrainer]
           /\ saves' = saves + 1
           /\ UNCHANGED <<miner, frontend, mlservice, now>>

\* ModelManager.get_model_info(), None when no model was saved
get_model_info ==
    LET metadata == get_metadata
    IN IF metadata.current_version = VersionZero THEN [none |-> TRUE]
       ELSE [none |-> FALSE,
             current_version |-> metadata.current_version,
             known |-> metadata.current_version \in DOMAIN metadata.models,
             available_versions |-> DOMAIN metadata.models]

\* GET /model/info
ModelInfo ==
    /\ tresponse' = IF get_model_info.none
                    THEN [req |-> "info", status |-> 404]
                    ELSE [req |-> "info", status |-> 200, info |-> get_model_info]
    /\ UNCHANGED <<miner, frontend, mlservice, store, trainers, now, saves>>

\* the training service handling one /train request at a time
NextTrain ==
    \/ TrainRequestAlone
    \/ NextVersion
    \/ DumpModel
    \/ ReadMetadata
    \/ WriteMetadata
    \/ ModelInfo

SpecTrain == Init /\ [][NextTrain]_vars

\* the training service handling /train requests in several threads
NextTrainThreads ==
    \/ TrainRequest
    \/ NextVersion
    \/ DumpModel
    \/ ReadMetadata
    \/ WriteMetadata
    \/ ModelInfo

SpecTrainThreads == Init /\ [][NextTrainThreads]_vars

----------------------------------------------------------------------------
(* C24 *)

\* the versions '1.0' .. 'k.0'
VersionsUpTo(k) == {FormatVersion(j) : j \in 1..k}

\* C24: from fresh metadata, after k successive successful save_model
\* calls current_version is 'k.0' and metadata['models'] has exactly the
\* keys '1.0' .. 'k.0'; current_version is always '0.0' or a key of
\* metadata['models']; GET /model/info answers 404 exactly while
\* current_version is '0.0'.
C24_Versions ==
    /\ [](/\ store.current_version = FormatVersion(saves)
          /\ DOMAIN store.models = VersionsUpTo(saves)
          /\ store.current_version = VersionZero
                \/ store.current_version \in DOMAIN store.models)
    /\ [][ModelInfo =>
            (tresponse'.status = 404 <=> store.current_version = VersionZero)]_vars

\* three models were saved one after the other, and /model/info answered
\* 200 after the third
C24_Witness ==
    /\ saves = 3
    /\ store.current_version = <<"3", ".", "0">>
    /\ tresponse.req = "info"
    /\ tresponse.status = 200

----------------------------------------------------------------------------
(* C25 *)

\* C25: when two /train requests interleave, each successful save_model
\* still gets a version of its own, each model stays stored under its own
\* pickle path, and each appears in metadata['models']: no update of
\* metadata.json is lost and no model file is overwritten.
C25_NoLostUpdate ==
    /\ Cardinality(DOMAIN store.models) = saves
    /\ Cardinality(DOMAIN store.files) >= saves
    /\ \A v \in DOMAIN store.models : store.models[v].path \in DOMAIN store.files

----------------------------------------------------------------------------
(* The recommendation service beside the training side: start-up load,
   POST /reload-model, POST /api/recommender and GET /health handled by
   the threads of the server, over the shared models directory *)

\* None as a version (ModelLoader.__init__)
NoVersion == <<>>

\* None as a model date (ModelLoader.__init__)
NoDate == 0

\* a models directory in which no metadata.json was written yet
NoDirectory == [exists |-> FALSE, current_version |-> VersionZero, models |-> <<>>, files |-> <<>>]

\* the content of a file that pickle.load cannot read
Unreadable == [loaded |-> FALSE]

\* the attributes of model_loader
Loaded == <<current_model, current_version, model_date>>

\* no call of load_latest_model in progress
IdleLoader ==
    [pc |-> "idle", caller |-> "none", version |-> NoVersion,
     model_info |-> [path |-> <<>>, timestamp |-> NoDate], before |-> <<>>]

\* load_latest_model called: its local variables, and the attributes of
\* model_loader at the call
CallLoad(caller) ==
    [IdleLoader EXCEPT !.pc = "metadata", !.caller = caller, !.before = Loaded]

\* no /api/recommender request in progress
IdleRecommend == [pc |-> "idle", model |-> NoModel, songs |-> <<>>, version |-> NoVersion]

\* the models the training side saves beside this service
ServeModels == {m \in MinedResults : m.rules[1].antecedent = <<ItemA>>}

\* the bodies sent to /api/recommender beside reloads
ServeBodies == {JNull, JObject({"songs"}, JArray(<<JString(<<" ", "A", " ">>)>>))}

\* the module is imported: model_loader is built and the start-up load
\* is called, before any request is served
InitServe ==
    /\ min_support = DefaultMinSupport
    /\ min_confidence = DefaultMinConfidence
    /\ frequent_itemsets = <<>>
    /\ rules = <<>>
    /\ tid_lists = <<>>
    /\ num_transactions = 0
    /\ transactions = <<>>
    /\ fit_i = 1
    /\ stack = <<>>
    /\ gen_i = 1
    /\ results = NoResults
    /\ fits = 0
    /\ pc = "new"
    /\ current_model = NoModel
    /\ current_version = NoVersion
    /\ model_date = NoDate
    /\ request = NoRequest
    /\ response = NoResponse
    /\ threads = [reload |-> [IdleLoader EXCEPT !.pc = "metadata", !.caller = "startup",
                                                !.before = <<NoModel, NoVersion, NoDate>>],
                  recommend |-> IdleRecommend]
    /\ store \in {NoDirectory, FreshStore}
    /\ trainers = [t \in Trainers |-> IdleTrainer]
    /\ now = 1
    /\ saves = 0
    /\ tresponse = NoTResponse
    /\ ml_request = NoMLRequest
    /\ ml_response = <<>>
    /\ gateway = NoGateway

\* the server handles requests once the module's start-up code has run
Started == threads.reload.caller # "startup"

\* POST /reload-model received: load_latest_model is called
ReloadBegin ==
    /\ Started
    /\ threads.reload.pc = "idle"
    /\ threads' = [threads EXCEPT !.reload = CallLoad("reload")]
    /\ UNCHANGED <<miner, Loaded, request, response, training, mlservice>>

\* load_latest_model raised: the start-up code prints a warning,
\* reload_model answers 500
LoadRaised(message) ==
    /\ threads' = [threads EXCEPT !.reload = IdleLoader]
    /\ response' = IF threads.reload.caller = "reload"
                   THEN [status |-> 500, reload |-> "error", message |-> message]
                   ELSE response
    /\ UNCHANGED <<miner, Loaded, request, training, mlservice>>

\* the same step assigning current_version as soon as it is read
LoadMetadataAssigning ==
    /\ threads.reload.pc = "metadata"
    /\ IF ~store.exists THEN LoadRaised("No metadata.json found")
       ELSE IF store.current_version = VersionZero THEN LoadRaised("No trained model available")
       ELSE IF store.current_version \notin DOMAIN store.models
       THEN LoadRaised("not found in metadata")
       ELSE /\ threads' = [threads EXCEPT !.reload.version = store.current_version,
                                          !.reload.model_info = store.models[store.current_version],
                                          !.reload.pc = "pickle"]
            /\ current_version' = store.current_version
            /\ UNCHANGED <<miner, current_model, model_date, request, response,
                           training, mlservice>>

\* load_latest_model: metadata.json is looked for and read, the current
\* version and its entry are taken from it
LoadMetadata ==
    /\ threads.reload.pc = "metadata"
    /\ IF ~store.exists THEN LoadRaised("No metadata.json found")
       ELSE IF store.current_version = VersionZero THEN LoadRaised("No trained model available")
       ELSE IF store.current_version \notin DOMAIN store.models
       THEN LoadRaised("not found in metadata")
       ELSE /\ threads' = [threads EXCEPT !.reload.version = store.current_version,
                                          !.reload.model_info = store.models[store.current_version],
                                          !.reload.pc = "pickle"]
            /\ UNCHANGED <<miner, Loaded, request, response, training, mlservice>>

\* load_latest_model: self.current_model = pickle.load(f)
LoadPickle ==
    /\ threads.reload.pc = "pickle"
    /\ LET model_path == threads.reload.model_info.path
       IN IF model_path \notin DOMAIN store.files THEN LoadRaised("No such file")
          ELSE IF store.files[model_path] = Unreadable THEN LoadRaised("UnpicklingError")
          ELSE /\ current_model' = store.files[model_path]
               /\ threads' = [threads EXCEPT !.reload.pc = "version"]
               /\ UNCHANGED <<miner, current_version, model_date, request, response,
                              training, mlservice>>

\* load_latest_model: self.current_version = current_version
LoadVersion ==
    /\ threads.reload.pc = "version"
    /\ current_version' = threads.reload.version
    /\ threads' = [threads EXCEPT !.reload.pc = "date"]
    /\ UNCHANGED <<miner, current_model, model_date, request, response, training, mlservice>>

\* load_latest_model: self.model_date = model_info['timestamp'], and
\* the return to the start-up code or to reload_model
LoadDate ==
    /\ threads.reload.pc = "date"
    /\ model_date' = threads.reload.model_info.timestamp
    /\ threads' = [threads EXCEPT !.reload =
                      IF threads.reload.caller = "startup" THEN IdleLoader
                      ELSE [threads.reload EXCEPT !.pc = "respond"]]
    /\ UNCHANGED <<miner, current_model, current_version, request, response,
                   training, mlservice>>

\* reload_model: info = model_loader.get_model_info(), and the 200 answer
ReloadRespond ==
    /\ threads.reload.pc = "respond"
    /\ response' = [status |-> 200, reload |-> "success", version |-> current_version,
                    model_date |-> model_date]
    /\ threads' = [threads EXCEPT !.reload = IdleLoader]
    /\ UNCHANGED <<miner, Loaded, request, training, mlservice>>

\* POST /api/recommender received: the checks, the engine built on
\* model_loader.current_model and its recommendations
RecommendBegin ==
    /\ Started
    /\ threads.recommend.pc = "idle"
    /\ \E data \in ServeBodies :
          LET r == RecommendResponse(data)
          IN /\ request' = data
             /\ IF r.status # 200
                THEN /\ response' = r
                     /\ UNCHANGED threads
                ELSE /\ threads' = [threads EXCEPT !.recommend =
                                       [IdleRecommend EXCEPT !.pc = "version",
                                                             !.model = current_model,
                                                             !.songs = r.songs]]
                     /\ UNCHANGED response
    /\ UNCHANGED <<miner, Loaded, training, mlservice>>

\* get_model_info(): 'version': self.current_version
RecommendVersion ==
    /\ threads.recommend.pc = "version"
    /\ threads' = [threads EXCEPT !.recommend.version = current_version,
                                  !.recommend.pc = "date"]
    /\ UNCHANGED <<miner, Loaded, request, response, training, mlservice>>

\* get_model_info(): 'model_date': self.model_date, and the 200 answer
RecommendRespond ==
    /\ threads.recommend.pc = "date"
    /\ response' = [status |-> 200, songs |-> threads.recommend.songs,
                    version |-> threads.recommend.version, model_date |-> model_date]
    /\ threads' = [threads EXCEPT !.recommend = IdleRecommend]
    /\ UNCHANGED <<miner, Loaded, request, training, mlservice>>

\* GET /health answering from the metadata file
HealthFromMetadata ==
    /\ Started
    /\ response' = [status |-> 200, health |-> "healthy",
                    model_loaded |-> current_model # NoModel,
                    model_version |-> IF current_model # NoModel
                                      THEN get_metadata.current_version ELSE NoVersion]
    /\ UNCHANGED <<miner, Loaded, request, threads, training, mlservice>>

\* GET /health
Health ==
    /\ Started
    /\ response' = [status |-> 200, health |-> "healthy",
                    model_loaded |-> current_model # NoModel,
                    model_version |-> IF current_model # NoModel
                                      THEN current_version ELSE NoVersion]
    /\ UNCHANGED <<miner, Loaded, request, threads, training, mlservice>>

\* the training service starts: ModelManager() writes metadata.json when
\* there is none
TrainingStarts ==
    /\ ~store.exists
    /\ store' = [FreshStore EXCEPT !.files = store.files]
    /\ UNCHANGED <<miner, frontend, mlservice, trainers, now, saves, tresponse>>

\* a /train request served alone from its validation to its 200 answer:
\* save_model gives the mined model the next version
TrainingSaves ==
    /\ saves < MaxSaves
    /\ InProgress = {}
    /\ \E model_data \in ServeModels :
          LET version == FormatNext(get_metadata.current_version)
          IN /\ store' = [exists |-> TRUE,
                          current_version |-> version,
                          models |-> DictSet(get_metadata.models, version,
                                             ModelEntry(version, now, model_data)),
                          files |-> DictSet(store.files, PathOf(version), model_data)]
             /\ tresponse' = [req |-> "train", status |-> 200, version |-> version,
                              timestamp |-> now, model_path |-> PathOf(version)]
    /\ now' = now + 1
    /\ saves' = saves + 1
    /\ UNCHANGED <<miner, frontend, mlservice, trainers>>

\* the recommendation service and the training side
NextServe ==
    \/ ReloadBegin
    \/ LoadMetadata
    \/ LoadPickle
    \/ LoadVersion
    \/ LoadDate
    \/ ReloadRespond
    \/ RecommendBegin
    \/ RecommendVersion
    \/ RecommendRespond
    \/ Health
    \/ TrainingStarts
    \/ TrainingSaves

SpecServe == InitServe /\ [][NextServe]_vars

----------------------------------------------------------------------------
(* C26 *)

\* the model, the version and the date of one stored model
SameModel(model, version, date) ==
    /\ version \in DOMAIN store.models
    /\ store.models[version].timestamp = date
    /\ store.files[store.models[version].path] = model

\* C26: every 200 answer of POST /api/recommender carries the version
\* and the model_date of the model whose rules produced its songs, also
\* when POST /reload-model is handled at the same time
C26_SameModel ==
    [][RecommendRespond =>
         SameModel(threads.recommend.model, response'.version, response'.model_date)]_vars

----------------------------------------------------------------------------
(* C27 *)

\* d without its key
DictDel(d, key) == [k \in DOMAIN d \ {key} |-> d[k]]

\* every pickle written is readable and listed in metadata.json
Intact ==
    /\ store.exists
    /\ \A model_path \in DOMAIN store.files :
          /\ store.files[model_path] # Unreadable
          /\ \E version \in DOMAIN store.models : store.models[version].path = model_path

\* an intact directory is altered from outside the two services: the
\* entry of the current version is taken out of metadata.json, or the
\* pickle of the current version is made unreadable
DirectoryFault ==
    /\ Intact
    /\ store.current_version \in DOMAIN store.models
    /\ \/ store' = [store EXCEPT !.models = DictDel(store.models, store.current_version)]
       \/ store' = [store EXCEPT !.files[PathOf(store.current_version)] = Unreadable]
    /\ UNCHANGED <<miner, frontend, mlservice, trainers, now, saves, tresponse>>

\* the two services over a directory that may be altered
NextServeFaults ==
    \/ NextServe
    \/ DirectoryFault

SpecServeFaults == InitServe /\ [][NextServeFaults]_vars

\* the step at which load_latest_model raises
LoadFails ==
    /\ LoadMetadata \/ LoadPickle
    /\ threads'.reload.pc = "idle"

\* C27: when load_latest_model fails, current_model, current_version
\* and model_date are what they were when it was called, and
\* /reload-model answers 500
C27_FailedLoad ==
    [][LoadFails =>
         /\ Loaded' = threads.reload.before
         /\ threads.reload.caller = "reload" => response'.status = 500]_vars

\* /reload-model has answered 500 on an unreadable pickle while an
\* earlier model stays loaded
C27_Witness ==
    /\ "reload" \in DOMAIN response
    /\ response.status = 500
    /\ response.message = "UnpicklingError"
    /\ current_model # NoModel
    /\ current_version = <<"1", ".", "0">>
    /\ threads.reload.pc = "idle"

----------------------------------------------------------------------------
(* C28 *)

----------------------------------------------------------------------------
(* C29 *)

\* a JSON object whose dataset_url is a string that starts with http://
\* or https://
GoodTrainBody(data) ==
    /\ data.kind = "object"
    /\ "dataset_url" \in data.keys
    /\ data.dataset_url.kind = "string"
    /\ \/ StartsWith(data.dataset_url.chars, Http)
       \/ StartsWith(data.dataset_url.chars, Https)

\* C29: a POST /train whose body is not a good one, or whose download,
\* parsing or mining fails, is answered 400 or 500 and saves nothing:
\* metadata.json and the model files are as before, and no call of
\* save_model is started
C29_NoModelSaved ==
    [][\A data \in TrainBodies, outcome \in Outcomes :
          (/\ TrainBegin(1, data, outcome)
           /\ ~GoodTrainBody(data) \/ outcome.kind # "results")
             => /\ tresponse'.status \in {400, 500}
                /\ store' = store
                /\ saves' = saves
                /\ trainers' = trainers]_vars

\* a request failed in the mining after a model was saved, and the
\* stored model is still the current one
C29_Witness ==
    /\ tresponse.req = "train"
    /\ tresponse.status = 500
    /\ tresponse.message = "mining_error"
    /\ saves = 1
    /\ store.current_version = <<"1", ".", "0">>
    /\ DOMAIN store.files = {PathOf(<<"1", ".", "0">>)}

----------------------------------------------------------------------------
(* The backend gateway in front of the ML service *)

\* the status codes the ML service may answer with
MLStatuses == {200, 400, 404, 422, 500, 503}

\* what a call of the ML service through httpx comes to: an answer with
\* a status code and a body that is JSON or not, an httpx.RequestError
\* (no connection, timeout), or another exception
MLOutcomes ==
    {[kind |-> "answer", status_code |-> s, json |-> j] : s \in MLStatuses, j \in BOOLEAN}
        \cup {[kind |-> "RequestError"], [kind |-> "Exception"]}

\* HTTPException(status_code, detail)
HTTPException(status_code, detail) ==
    [type |-> "HTTPException", status_code |-> status_code, detail |-> detail]

\* a detail given as a string literal
Text(chars) == [text |-> chars]

\* a detail given as str(e): the rendering of the exception e
Str(e) == [str |-> e]

\* the body of an endpoint that forwards to the ML service: the call and
\* the test of the status code are inside the try, so the HTTPException
\* raised on a status other than 200 reaches `except Exception`, where a
\* new HTTPException(500, str(e)) replaces it
Forward(outcome) ==
    IF outcome.kind = "RequestError"
    THEN HTTPException(503, Text("ML service unavailable"))
    ELSE IF outcome.kind = "Exception"
    THEN HTTPException(500, Str(outcome))
    ELSE IF outcome.status_code # 200
    THEN HTTPException(500, Str(HTTPException(outcome.status_code, Text("ML service error"))))
    ELSE IF ~outcome.json
    THEN HTTPException(500, Str([kind |-> "JSONDecodeError"]))
    ELSE [type |-> "json", status_code |-> 200, detail |-> Text("")]

\* an endpoint answers with what Forward returns or raises
Forwarded(endpoint, sent, outcome) ==
    /\ gateway' = [endpoint |-> endpoint, sent |-> sent, outcome |-> outcome,
                   status |-> Forward(outcome).status_code,
                   detail |-> Forward(outcome).detail]
    /\ UNCHANGED <<miner, frontend, training, ml_request, ml_response>>

\* POST /api/recommendations
get_recommendations ==
    \E user_id \in UserIds, num \in Nums, outcome \in MLOutcomes :
        Forwarded("/api/recommendations",
                  [user_id |-> user_id, num_recommendations |-> num], outcome)

\* GET /api/playlists
get_playlists == \E outcome \in MLOutcomes : Forwarded("/api/playlists", <<>>, outcome)

\* GET /api/users
get_users == \E outcome \in MLOutcomes : Forwarded("/api/users", <<>>, outcome)

\* check_ml_service(): the ML service answered 200 to GET /health
check_ml_service(outcome) == outcome.kind = "answer" /\ outcome.status_code = 200

\* GET /health of the gateway
BackendHealth ==
    \E outcome \in MLOutcomes :
        /\ gateway' = [endpoint |-> "/health", sent |-> <<>>, outcome |-> outcome,
                       status |-> 200, detail |-> Text("healthy"),
                       ml_service_status |-> IF check_ml_service(outcome)
                                             THEN "healthy" ELSE "unavailable"]
        /\ UNCHANGED <<miner, frontend, training, ml_request, ml_response>>

NextGateway ==
    \/ get_recommendations
    \/ get_playlists
    \/ get_users
    \/ BackendHealth

SpecGateway == Init /\ [][NextGateway]_vars

----------------------------------------------------------------------------
(* C30 *)

\* the three endpoints that forward to the ML service
Forwarding == {"/api/recommendations", "/api/playlists", "/api/users"}

\* C30: a status other than 200 from the ML service is passed on with
\* detail 'ML service error'; an unreachable ML service gives 503; 500
\* is kept for other errors; GET /health answers 200 'healthy' and says
\* 'unavailable' when the health check of the ML service fails
C30_ErrorMapping ==
    /\ gateway.endpoint \in Forwarding =>
          /\ (gateway.outcome.kind = "answer" /\ gateway.outcome.status_code # 200)
                => /\ gateway.status = gateway.outcome.status_code
                   /\ gateway.detail = Text("ML service error")
          /\ gateway.outcome.kind = "RequestError" => gateway.status = 503
          /\ gateway.status = 500 =>
                \/ gateway.outcome.kind = "Exception"
                \/ gateway.outcome.kind = "answer"
                     /\ \/ gateway.outcome.status_code = 500
                        \/ gateway.outcome.status_code = 200 /\ ~gateway.outcome.json
    /\ gateway.endpoint = "/health" =>
          /\ gateway.status = 200
          /\ gateway.detail = Text("healthy")
          /\ ~check_ml_service(gateway.outcome) => gateway.ml_service_status = "unavailable"

====
